---- MODULE Spec2Model ----
(***************************************************************************)
(* A model of scripts/scrape-cse120.py: the CSE 120 course page scraper.   *)
(*                                                                         *)
(* Strings are sequences of lexical tokens.  A digit, a punctuation mark   *)
(* or a blank is a token of its own; a word is one token.  Python's `in`   *)
(* is contiguous containment of a token sequence, str.lower() maps every   *)
(* token to its lower-case form, and each regular expression of the source *)
(* is matched token by token.                                              *)
(***************************************************************************)
EXTENDS Integers, Sequences, FiniteSets, TLC

VARIABLES
    pc,           \* position of main(): start, locate, extract, scraped, enrich, papers, write, done
    args,         \* parsed command line: [week, no_enrich]
    api_key,      \* whether self.parallel_api_key is set
    page,         \* <<>> or <<doc>>: the parsed course page (a local of scrape_week)
    schedule_table, \* index of the table the locator chose (0: none yet)
    week_data,    \* <<>> or <<wd>>: what scrape_week returned
    todo,         \* resources enrich_with_parallel still has to enrich, in call order
    enriched_data,\* the collections enrich_with_parallel is building
    calls,        \* log of the external API calls made: [api, type, outcome]
    output,       \* <<>> or <<document>>: the assembled bundle
    file,         \* <<>> or <<document>>: what was written to args.output
    resources,    \* the four buckets handed to a stand-alone _categorize_link call
    call,         \* <<>> or <<[url, text]>>: the last stand-alone _categorize_link call
    steps         \* log of the steps main() has taken, in the order they were taken

vars == <<pc, args, api_key, page, schedule_table, week_data, todo,
          enriched_data, calls, output, file, resources, call, steps>>

mainVars == <<pc, args, api_key, page, schedule_table, week_data, todo,
              enriched_data, calls, output, file, steps>>

-----------------------------------------------------------------------------
(* Bounds of the model *)

MaxTextLen == 2
MaxUrlLen == 2
MaxTables == 2
MaxTitleLen == 3

-----------------------------------------------------------------------------
(* Strings *)

Digits == {"0", "1", "2", "3", "4", "5", "6", "7", "8", "9"}

IsDigit(tok) == tok \in Digits

IsSpace(tok) == tok = " "

\* str.lower(), token by token
LowerTok(tok) ==
    CASE tok = "Ch" -> "ch"
      [] tok = "CH" -> "ch"
      [] tok = "Chapter" -> "chapter"
      [] tok = "Textbook" -> "textbook"
      [] tok = "Reading" -> "reading"
      [] tok = "Homework" -> "homework"
      [] tok = "HW" -> "hw"
      [] tok = "PR" -> "pr"
      [] tok = "Slide" -> "slide"
      [] tok = "Paper" -> "paper"
      [] tok = "Lecture" -> "lecture"
      [] tok = "Semaphore" -> "semaphore"
      [] tok = "Monitor" -> "monitor"
      [] tok = "And" -> "and"
      [] tok = "Silberschatz" -> "silberschatz"
      [] tok = "Tanenbaum" -> "tanenbaum"
      [] tok = ".PDF" -> ".pdf"
      [] OTHER -> tok

lower(s) == [i \in 1..Len(s) |-> LowerTok(s[i])]

\* pat in s
Contains(s, pat) ==
    \E i \in 0..(Len(s) - Len(pat)) : SubSeq(s, i + 1, i + Len(pat)) = pat

\* s.endswith(pat)
EndsWith(s, pat) ==
    /\ Len(pat) <= Len(s)
    /\ SubSeq(s, Len(s) - Len(pat) + 1, Len(s)) = pat

\* first position >= i of s that holds no blank (Len(s) + 1 when there is none)
RECURSIVE SkipSpace(_, _)
SkipSpace(s, i) ==
    IF i <= Len(s) /\ IsSpace(s[i]) THEN SkipSpace(s, i + 1) ELSE i

\* first position >= i of s that holds no digit
RECURSIVE SkipDigits(_, _)
SkipDigits(s, i) ==
    IF i <= Len(s) /\ IsDigit(s[i]) THEN SkipDigits(s, i + 1) ELSE i

\* str.strip()
RECURSIVE strip(_)
strip(s) ==
    IF s = <<>> THEN s
    ELSE IF IsSpace(Head(s)) THEN strip(Tail(s))
    ELSE IF IsSpace(s[Len(s)]) THEN strip(SubSeq(s, 1, Len(s) - 1))
    ELSE s

\* ' '.join(parts)
RECURSIVE join(_)
join(parts) ==
    IF parts = <<>> THEN <<>>
    ELSE IF Len(parts) = 1 THEN parts[1]
    ELSE parts[1] \o <<" ">> \o join(Tail(parts))

\* the regular expression  word \.? \s* \d+  (dot: whether \.? is part of it)
\* matches s at position i
WordNumAt(s, i, word, dot) ==
    /\ i <= Len(s)
    /\ s[i] = word
    /\ LET j == IF dot /\ i + 1 <= Len(s) /\ s[i + 1] = "." THEN i + 2 ELSE i + 1
           k == SkipSpace(s, j)
       IN  k <= Len(s) /\ IsDigit(s[k])

\* re.match(pattern, s): the pattern matches at the start of s
re_match(s, word, dot) == WordNumAt(s, 1, word, dot)

\* re.search(pattern, s): the pattern matches somewhere in s
re_search(s, word, dot) == \E i \in 1..Len(s) : WordNumAt(s, i, word, dot)

-----------------------------------------------------------------------------
(* _categorize_link *)

Buckets == {"textbook", "slides", "homework", "papers"}

EmptyResources ==
    [textbook |-> <<>>, slides |-> <<>>, homework |-> <<>>, papers |-> <<>>]

\* resources[bucket].append({"url": url, "title": text})
AppendTo(res, bucket, url, text) ==
    [res EXCEPT ![bucket] = Append(@, [url |-> url, title |-> text])]

\* the condition of the `if` of line 164
IsTextbookLink(text_lower) ==
    \/ re_match(text_lower, "ch", TRUE)
    \/ Contains(text_lower, <<"chapter">>)
    \/ Contains(text_lower, <<"textbook">>)
    \/ Contains(text_lower, <<"reading">>)

\* the condition of the `elif` of line 169
IsHomeworkLink(text_lower) ==
    \/ Contains(text_lower, <<"homework">>)
    \/ Contains(text_lower, <<"assignment">>)
    \/ Contains(text_lower, <<"project">>)
    \/ re_match(text_lower, "hw", FALSE)
    \/ re_match(text_lower, "pr", FALSE)

\* the condition of the `elif` of line 174
IsSlidesLink(text_lower, url_lower) ==
    \/ Contains(text_lower, <<"slide">>)
    \/ Contains(url_lower, <<".ppt">>)
    \/ (Contains(url_lower, <<"lecture">>) /\ Contains(url_lower, <<".pdf">>))
    \/ Contains(url_lower, <<"/", "sema", ".pdf">>)

\* the condition of the `elif` of line 179
IsPaperLink(text_lower, url_lower) ==
    \/ Contains(text_lower, <<"paper">>)
    \/ Contains(url_lower, <<"arxiv">>)
    \/ Contains(url_lower, <<"acm">>)
    \/ Contains(url_lower, <<"ieee">>)
    \/ Contains(text_lower, <<"language">>)
    \/ Contains(text_lower, <<"optional">>)
    \/ Contains(text_lower, <<"cv">>)

\* A slip: the homework test is an `if` of its own, not an `elif` of the chain.
categorize_link_if(url, text, res) ==
    LET text_lower == lower(text)
        url_lower == lower(url)
        r1 == IF IsTextbookLink(text_lower)
              THEN AppendTo(res, "textbook", url, text) ELSE res
    IN  IF IsHomeworkLink(text_lower) THEN AppendTo(r1, "homework", url, text)
        ELSE IF r1 # res THEN r1
        ELSE IF IsSlidesLink(text_lower, url_lower) THEN AppendTo(res, "slides", url, text)
        ELSE IF IsPaperLink(text_lower, url_lower) THEN AppendTo(res, "papers", url, text)
        ELSE IF Contains(url_lower, <<".pdf">>) THEN AppendTo(res, "slides", url, text)
        ELSE AppendTo(res, "papers", url, text)

\* A slip: the slides rule is tested before the homework rule.
categorize_link_slides_first(url, text, res) ==
    LET text_lower == lower(text)
        url_lower == lower(url)
    IN  IF IsTextbookLink(text_lower) THEN AppendTo(res, "textbook", url, text)
        ELSE IF IsSlidesLink(text_lower, url_lower) THEN AppendTo(res, "slides", url, text)
        ELSE IF IsHomeworkLink(text_lower) THEN AppendTo(res, "homework", url, text)
        ELSE IF IsPaperLink(text_lower, url_lower) THEN AppendTo(res, "papers", url, text)
        ELSE IF Contains(url_lower, <<".pdf">>) THEN AppendTo(res, "slides", url, text)
        ELSE AppendTo(res, "papers", url, text)

_categorize_link(url, text, res) ==
    LET text_lower == lower(text)
        url_lower == lower(url)
    IN  IF IsTextbookLink(text_lower) THEN AppendTo(res, "textbook", url, text)
        ELSE IF IsHomeworkLink(text_lower) THEN AppendTo(res, "homework", url, text)
        ELSE IF IsSlidesLink(text_lower, url_lower) THEN AppendTo(res, "slides", url, text)
        ELSE IF IsPaperLink(text_lower, url_lower) THEN AppendTo(res, "papers", url, text)
        ELSE IF Contains(url_lower, <<".pdf">>) THEN AppendTo(res, "slides", url, text)
        ELSE AppendTo(res, "papers", url, text)

-----------------------------------------------------------------------------
(* Stand-alone calls of _categorize_link: any (url, text), any prior buckets *)

SeqsUpTo(S, n) == UNION {[1..k -> S] : k \in 0..n}

TextAlphabet ==
    {"Ch", ".", " ", "3", "Chapter", "textbook", "Homework", "hw", "slide", "paper", "notes"}

UrlAlphabet == {"lecture", ".pdf", ".ppt", "x"}

HomeworkCh3 == <<"Homework", " ", "Ch", ".", " ", "3">>

\* link texts of the course page and of the specification's examples
ExtraTexts ==
    { HomeworkCh3,
      <<"CH", ".", " ", "5">>,
      <<"notes", " ", "Ch", ".", "3">>,
      <<"HW", " ", "2">>,
      <<"PR", "1">>,
      <<"notes", " ", "HW", "2">>,
      <<"Slide", " ", "Deck">>,
      <<"Reading">>, <<"assignment">>, <<"project">>,
      <<"language">>, <<"optional">>, <<"cv">> }

ExtraUrls ==
    { <<"https://x.org", "/", "lecture", "1", "2", ".pdf">>,
      <<"https://", "arxiv", ".org", "/", "abs", "/", "1", "2", "3", "4", ".pdf">>,
      <<"https://cseweb.ucsd.edu", "/", "sema", ".pdf">>,
      <<"https://x.org", "/", "a", ".pdf", "?", "dl">>,
      <<"https://x.org", "/", "Lecture", "/", "a", ".PDF">>,
      <<"https://dl.", "acm", ".org", "/", "a">>,
      <<"https://", "arxiv", ".org", "/", "abs", "/", "1">>,
      <<"https://", "ieee", ".org", "/", "a", ".pdf">> }

Texts == SeqsUpTo(TextAlphabet, MaxTextLen) \cup ExtraTexts

Urls == SeqsUpTo(UrlAlphabet, MaxUrlLen) \cup ExtraUrls

PriorRecord == [url |-> <<"https://x.org", "/", "old">>, title |-> <<"old">>]

\* what the buckets may hold before the call
PriorResources ==
    { EmptyResources,
      [textbook |-> <<PriorRecord>>, slides |-> <<PriorRecord>>,
       homework |-> <<PriorRecord>>, papers |-> <<PriorRecord>>],
      [textbook |-> <<>>, slides |-> <<>>,
       homework |-> <<PriorRecord, PriorRecord>>, papers |-> <<>>] }

MainOff ==
    /\ pc = "off"
    /\ args = [week |-> 3, no_enrich |-> FALSE]
    /\ api_key = FALSE
    /\ page = <<>>
    /\ schedule_table = 0
    /\ week_data = <<>>
    /\ todo = <<>>
    /\ enriched_data = <<>>
    /\ calls = <<>>
    /\ output = <<>>
    /\ file = <<>>
    /\ steps = <<>>

InitCat ==
    /\ MainOff
    /\ resources \in PriorResources
    /\ call = <<>>

\* one call _categorize_link(url, text, resources)
CategorizeCall ==
    /\ pc = "off"
    /\ call = <<>>
    /\ \E url \in Urls, text \in Texts :
          /\ call' = <<[url |-> url, text |-> text, resources |-> resources]>>
          /\ resources' = _categorize_link(url, text, resources)
    /\ UNCHANGED mainVars

NextCat == CategorizeCall

SpecCat == InitCat /\ [][NextCat]_vars

\* the buckets the last call changed
Grown == {b \in Buckets : resources[b] # call[1].resources[b]}

\* the last call appended its record to bucket b and touched nothing else
LandedIn(b) ==
    /\ resources[b] = Append(call[1].resources[b],
                             [url |-> call[1].url, title |-> call[1].text])
    /\ \A o \in Buckets \ {b} : resources[o] = call[1].resources[o]

\* C1: a call of _categorize_link appends exactly one {url, title} record to
\* exactly one bucket and leaves the other three buckets and all earlier
\* entries unchanged; the bucket is the one the same (url, text) lands in
\* when the buckets are empty, so it depends on (url, text) alone.
C1_ExactlyOneBucket ==
    call # <<>> =>
        /\ Cardinality({b \in Buckets : LandedIn(b)}) = 1
        /\ \A b \in Buckets :
              LandedIn(b) <=>
                  Len(_categorize_link(call[1].url, call[1].text, EmptyResources)[b]) = 1

C1_Witness ==
    /\ call # <<>>
    /\ call[1].resources.homework = <<PriorRecord, PriorRecord>>
    /\ Len(resources.homework) = 3
    /\ Contains(lower(call[1].text), <<"textbook">>) = FALSE

\* C2: a link whose text is "Homework Ch. 3" is categorized as textbook,
\* whatever its url.
C2_HomeworkCh3IsTextbook ==
    (call # <<>> /\ call[1].text = HomeworkCh3) => LandedIn("textbook")

\* first match of an ordered rule table: hits[i] says whether rule i applies
FirstHit(hits) == CHOOSE i \in 1..Len(hits) : hits[i] /\ \A j \in 1..(i - 1) : ~hits[j]

RuleCategories == <<"textbook", "homework", "slides", "papers", "slides", "papers">>

\* the six rules as the specification words them
SpecHits(url, text) ==
    LET t == lower(text)
        u == lower(url)
    IN  << \/ re_search(t, "ch", TRUE)
           \/ \E w \in {"chapter", "reading"} : Contains(t, <<w>>),
           \/ \E w \in {"homework", "assignment", "project"} : Contains(t, <<w>>)
           \/ re_search(t, "hw", FALSE)
           \/ re_search(t, "pr", FALSE),
           \/ Contains(t, <<"slide">>)
           \/ Contains(u, <<".ppt">>)
           \/ (Contains(u, <<"lecture">>) /\ EndsWith(u, <<".pdf">>))
           \/ Contains(u, <<"/", "sema", ".pdf">>),
           \/ \E w \in {"paper", "language", "optional", "cv"} : Contains(t, <<w>>)
           \/ \E w \in {"arxiv", "acm", "ieee"} : Contains(u, <<w>>),
           EndsWith(u, <<".pdf">>),
           TRUE >>

\* the six rules as amended: the three patterns are matched at the start of
\* the text, "textbook" is a textbook keyword, and ".pdf" may stand anywhere
\* in the url
AmendedHits(url, text) ==
    LET t == lower(text)
        u == lower(url)
    IN  << \/ WordNumAt(t, 1, "ch", TRUE)
           \/ \E w \in {"chapter", "textbook", "reading"} : Contains(t, <<w>>),
           \/ \E w \in {"homework", "assignment", "project"} : Contains(t, <<w>>)
           \/ WordNumAt(t, 1, "hw", FALSE)
           \/ WordNumAt(t, 1, "pr", FALSE),
           \/ Contains(t, <<"slide">>)
           \/ Contains(u, <<".ppt">>)
           \/ (Contains(u, <<"lecture">>) /\ Contains(u, <<".pdf">>))
           \/ Contains(u, <<"/", "sema", ".pdf">>),
           \/ \E w \in {"paper", "language", "optional", "cv"} : Contains(t, <<w>>)
           \/ \E w \in {"arxiv", "acm", "ieee"} : Contains(u, <<w>>),
           Contains(u, <<".pdf">>),
           TRUE >>

-----------------------------------------------------------------------------
(* scrape_week: the page, the schedule-table locator, the topic-row extractor *)

\* self.course_url
course_url ==
    <<"https://cseweb.ucsd.edu", "/", "classes", "/", "fa25", "/", "cse120-a", "/">>

\* first tokens of the urls for which url.startswith('http') holds
HttpPrefixes == {"https://cseweb.ucsd.edu", "https://x.org", "https://example.com", "http"}

\* first tokens that are a scheme and a host: the url is absolute
SchemeHosts == {"https://cseweb.ucsd.edu", "https://x.org", "https://example.com"}

startswith_http(url) == url # <<>> /\ url[1] \in HttpPrefixes

IsAbsolute(url) == url # <<>> /\ url[1] \in SchemeHosts

\* requests.compat.urljoin(base, url) for a url without a scheme: an empty
\* reference, a path from the root, or a path relative to the base directory
urljoin(base, url) ==
    IF url = <<>> THEN base
    ELSE IF url[1] = "/" THEN <<base[1]>> \o url
    ELSE base \o url

\* A slip: the href is used as it stands in the page.
link_url_raw(href) == href

\* lines 130-135: the url of a link
link_url(href) ==
    IF ~startswith_http(href) THEN urljoin(course_url, href) ELSE href

\* the cells of all rows, in document order
RECURSIVE all_cells(_)
all_cells(rows) ==
    IF rows = <<>> THEN <<>> ELSE Head(rows).cells \o all_cells(Tail(rows))

IsTh(c) == c.tag = "th"

\* lines 69-70: the text of the th cells of a table, joined by blanks
header_text(table) ==
    LET ths == SelectSeq(all_cells(table.rows), IsTh)
    IN  join([i \in 1..Len(ths) |-> strip(ths[i].text)])

\* line 73: the table has a schedule-like header
HasScheduleHeader(table) ==
    \/ Contains(header_text(table), <<"Date">>)
    \/ Contains(header_text(table), <<"Lecture">>)
    \/ Contains(header_text(table), <<"Readings">>)

\* re.match(r'\d{1,2}/\d{1,2}', s)
date_match(s) ==
    /\ Len(s) >= 3
    /\ IsDigit(s[1])
    /\ \/ s[2] = "/" /\ IsDigit(s[3])
       \/ IsDigit(s[2]) /\ s[3] = "/" /\ Len(s) >= 4 /\ IsDigit(s[4])

\* lines 79-85: the first cell of the first row holds a date
FirstCellIsDate(table) ==
    /\ table.rows # <<>>
    /\ table.rows[1].cells # <<>>
    /\ date_match(strip(table.rows[1].cells[1].text))

\* lines 66-88: the loop over the tables from table i on; 0 when none is chosen
RECURSIVE find_schedule_table(_, _)
find_schedule_table(tables, i) ==
    IF i > Len(tables) THEN 0
    ELSE IF HasScheduleHeader(tables[i]) THEN i
    ELSE IF FirstCellIsDate(tables[i]) THEN i
    ELSE find_schedule_table(tables, i + 1)

\* the pattern semaphores?\s+(and\s+)?monitors? matches s at position i
TopicAt(s, i) ==
    /\ i <= Len(s)
    /\ s[i] = "semaphore"
    /\ LET j == IF i + 1 <= Len(s) /\ s[i + 1] = "s" THEN i + 2 ELSE i + 1
           k == SkipSpace(s, j)
       IN  /\ k > j
           /\ k <= Len(s)
           /\ \/ s[k] = "monitor"
              \/ /\ s[k] = "and"
                 /\ SkipSpace(s, k + 1) > k + 1
                 /\ SkipSpace(s, k + 1) <= Len(s)
                 /\ s[SkipSpace(s, k + 1)] = "monitor"

\* semaphores_pattern.search(s), re.IGNORECASE
semaphores_pattern_search(s) == \E i \in 1..Len(s) : TopicAt(lower(s), i)

\* line 110: the text of the cells of a row, joined by blanks
row_text(row) == join([i \in 1..Len(row.cells) |-> strip(row.cells[i].text)])

\* lines 105-116: the row has two cells or more and holds the topic
RowQualifies(row) == Len(row.cells) >= 2 /\ semaphores_pattern_search(row_text(row))

\* lines 104-142: the loop over the rows from row i on; 0 when no row qualifies
RECURSIVE find_topic_row(_, _)
find_topic_row(rows, i) ==
    IF i > Len(rows) THEN 0
    ELSE IF RowQualifies(rows[i]) THEN i
    ELSE find_topic_row(rows, i + 1)

\* lines 121-122: the lecture title, from the second column
lecture_title(row) ==
    strip((IF Len(row.cells) > 1 THEN row.cells[2] ELSE row.cells[1]).text)

HasHref(a) == a.href # <<>>

\* lines 126-140: the loop over the anchors of the row that have an href
RECURSIVE categorize_links(_, _)
categorize_links(links, res) ==
    IF links = <<>> THEN res
    ELSE categorize_links(
             Tail(links),
             _categorize_link(link_url(Head(links).href[1]), strip(Head(links).text), res))

\* row.find_all('a', href=True)
row_links(row) == SelectSeq(row.anchors, HasHref)

\* decimal digits
DigitSeq == <<"0", "1", "2", "3", "4", "5", "6", "7", "8", "9">>

DigitVal(tok) == (CHOOSE i \in 1..10 : DigitSeq[i] = tok) - 1

\* str(n)
RECURSIVE str(_)
str(n) == IF n < 10 THEN <<DigitSeq[n + 1]>> ELSE str(n \div 10) \o <<DigitSeq[(n % 10) + 1]>>

\* int(s) of a run of digits
RECURSIVE int(_)
int(s) == IF s = <<>> THEN 0 ELSE 10 * int(SubSeq(s, 1, Len(s) - 1)) + DigitVal(s[Len(s)])

\* line 450
fallback_topic(week_number) ==
    IF week_number = 3 THEN <<"Process", " ", "Scheduling">>
    ELSE <<"Week", " ">> \o str(week_number) \o <<" ", "Topic">>

\* lines 446-464
_get_fallback_data(week_number) ==
    [ week |-> week_number,
      topic |-> fallback_topic(week_number),
      resources |->
        [ textbook |->
            << [url |-> <<"https://example.com", "/", "silberschatz-ch5", ".pdf">>,
                title |-> <<"Silberschatz", " ", "Chapter", " ", "5">>],
               [url |-> <<"https://example.com", "/", "tanenbaum-ch2", ".pdf">>,
                title |-> <<"Tanenbaum", " ", "Chapter", " ", "2">>] >>,
          slides |->
            << [url |-> <<"https://example.com", "/", "week3-slides", ".pdf">>,
                title |-> <<"Week", " ", "3", " ", "Lecture", " ", "Slide", "s">>] >>,
          homework |->
            << [url |-> <<"https://example.com", "/", "ps3", ".pdf">>,
                title |-> <<"Problem", " ", "Set", " ", "3">>] >>,
          papers |-> <<>> ] ]

-----------------------------------------------------------------------------
(* The enrichment adapter and the bundle assembler *)

\* lines 393-402: only Silberschatz and Tanenbaum return from the loop
_extract_authors(title) ==
    IF Contains(lower(title), <<"silberschatz">>)
    THEN <<"Abraham Silberschatz", "Peter Baer Galvin", "Greg Gagne">>
    ELSE IF Contains(lower(title), <<"tanenbaum">>)
    THEN <<"Andrew S. Tanenbaum", "Herbert Bos">>
    ELSE <<"Unknown Author">>

\* the number that follows the leftmost match of  word \.? \s* (\d+)  in s
group_number(s, word, dot) ==
    LET i == CHOOSE i \in 1..Len(s) :
                 WordNumAt(s, i, word, dot) /\ \A j \in 1..(i - 1) : ~WordNumAt(s, j, word, dot)
        j == IF dot /\ i + 1 <= Len(s) /\ s[i + 1] = "." THEN i + 2 ELSE i + 1
        k == SkipSpace(s, j)
    IN  int(SubSeq(s, k, SkipDigits(s, k) - 1))

\* lines 404-412
_extract_chapter_number(title) ==
    IF re_search(lower(title), "chapter", FALSE)
    THEN group_number(lower(title), "chapter", FALSE)
    ELSE IF re_search(lower(title), "ch", TRUE)
    THEN group_number(lower(title), "ch", TRUE)
    ELSE 1

\* re.findall(r'(\d+\.\d+)', s) from position i on
RECURSIVE findall_decimals(_, _)
findall_decimals(s, i) ==
    IF i > Len(s) THEN <<>>
    ELSE IF IsDigit(s[i])
    THEN LET e == SkipDigits(s, i)
         IN  IF e + 1 <= Len(s) /\ s[e] = "." /\ IsDigit(s[e + 1])
             THEN <<SubSeq(s, i, SkipDigits(s, e + 1) - 1)>>
                      \o findall_decimals(s, SkipDigits(s, e + 1))
             ELSE findall_decimals(s, i + 1)
    ELSE findall_decimals(s, i + 1)

\* the pattern (\d+)-(\d+) matches s at position i
RangeAt(s, i) ==
    /\ i <= Len(s)
    /\ IsDigit(s[i])
    /\ LET e == SkipDigits(s, i)
       IN  e + 1 <= Len(s) /\ s[e] = "-" /\ IsDigit(s[e + 1])

\* lines 414-427
_extract_problem_numbers(title) ==
    LET problems == findall_decimals(title, 1)
    IN  IF problems # <<>> THEN problems
        ELSE IF \E i \in 1..Len(title) : RangeAt(title, i)
        THEN LET i == CHOOSE i \in 1..Len(title) :
                          RangeAt(title, i) /\ \A j \in 1..(i - 1) : ~RangeAt(title, j)
                 e == SkipDigits(title, i)
                 start == int(SubSeq(title, i, e - 1))
                 end == int(SubSeq(title, e + 1, SkipDigits(title, e + 1) - 1))
             IN  [k \in 1..(end + 1 - start) |-> str(start + k - 1)]
        ELSE <<<<"1">>, <<"2">>, <<"3">>>>

\* the empty dict
EmptyDict == <<>>

\* a type-specific record with the given confidence (in hundredths)
StructuredRecord(resource, resource_type, confidence) ==
    IF resource_type = "textbook"
    THEN [ title |-> resource.title,
           url |-> resource.url,
           authors |-> _extract_authors(resource.title),
           pages |-> <<1, 50>>,
           chapter |-> _extract_chapter_number(resource.title),
           confidence |-> confidence ]
    ELSE IF resource_type = "slides"
    THEN [ title |-> resource.title,
           url |-> resource.url,
           pages |-> 40,
           professor |-> "CSE 120 Staff",
           confidence |-> confidence ]
    ELSE IF resource_type = "homework"
    THEN [ assignment |-> resource.title,
           url |-> resource.url,
           problems |-> _extract_problem_numbers(resource.title),
           confidence |-> confidence ]
    ELSE EmptyDict

\* A slip: the fallback record keeps the confidence of an enriched one.
basic_structure_confident(resource, resource_type) ==
    StructuredRecord(resource, resource_type, IF resource_type = "slides" THEN 90 ELSE 85)

\* lines 365-391
_basic_structure(resource, resource_type) ==
    StructuredRecord(resource, resource_type, 70)

\* what one POST to the search endpoint can do: answer 200 with a JSON body,
\* answer 200 with a body response.json() cannot parse, answer another
\* status, raise, or time out
SearchOutcomes == {"200", "200_not_json", "non_200", "exception", "timeout"}

\* A slip: a failed call yields no record.
enrich_resource_drop(resource, resource_type, outcome) ==
    IF outcome = "200"
    THEN StructuredRecord(resource, resource_type,
                          IF resource_type = "slides" THEN 90 ELSE 85)
    ELSE EmptyDict

\* lines 255-310
_enrich_resource(resource, resource_type, outcome) ==
    IF outcome = "200"
    THEN StructuredRecord(resource, resource_type,
                          IF resource_type = "slides" THEN 90 ELSE 85)
    ELSE IF outcome = "non_200"
    THEN _basic_structure(resource, resource_type)
    ELSE \* response.json(), requests.post or the timeout raised: line 308
         _basic_structure(resource, resource_type)

\* lines 466-493
_get_fallback_papers ==
    << [ title |-> <<"The Linux Completely Fair Scheduler">>,
         authors |-> <<"Ingo Molnar">>,
         url |-> <<"https://www.kernel.org/doc/Documentation/scheduler/sched-design-CFS.txt">>,
         year |-> 2023,
         venue |-> "Linux Kernel Documentation",
         confidence |-> 88 ],
       [ title |-> <<"Lottery Scheduling: Flexible Proportional-Share Resource Management">>,
         authors |-> <<"Carl A. Waldspurger", "William E. Weihl">>,
         url |-> <<"https://www.usenix.org/legacy/publications/library/proceedings/osdi/full_papers/waldspurger.pdf">>,
         year |-> 1994,
         venue |-> "OSDI",
         confidence |-> 85 ],
       [ title |-> <<"BFS vs CFS - Scheduler Comparison">>,
         authors |-> <<"Con Kolivas">>,
         url |-> <<"https://ck-hack.blogspot.com/2013/10/bfs-vs-cfs-scheduler-comparison.html">>,
         year |-> 2023,
         venue |-> "Blog Post",
         confidence |-> 75 ] >>

\* the bodies the task endpoint may answer with: the papers they list
TaskResults ==
    { <<>>,
      << [ title |-> <<"Found Paper">>,
           authors |-> <<"A. Author">>,
           url |-> <<"https://", "arxiv", ".org", "/", "abs", "/", "1">>,
           year |-> 2024,
           venue |-> "arXiv",
           confidence |-> 80 ] >> }

\* A slip: the papers of the response are returned.
parse_parallel_papers_result(result) == result

\* lines 359-363
_parse_parallel_papers(result) == _get_fallback_papers

\* lines 312-357: the papers for each outcome of the task call
_find_research_papers(key, outcome, result) ==
    IF ~key THEN _get_fallback_papers
    ELSE IF outcome = "200"
    THEN LET papers == _parse_parallel_papers(result)
         IN  IF papers # <<>> THEN papers ELSE _get_fallback_papers
    ELSE _get_fallback_papers

basic_all(rs, resource_type) ==
    [i \in 1..Len(rs) |-> _basic_structure(rs[i], resource_type)]

\* lines 429-444
_structure_for_output(wd) ==
    [ courseCode |-> "CSE 120",
      institution |-> "UCSD",
      weekNumber |-> wd.week,
      weekTopic |-> wd.topic,
      aggregatedContent |->
        [ textbooks |-> basic_all(wd.resources.textbook, "textbook"),
          slides |-> basic_all(wd.resources.slides, "slides"),
          homework |-> basic_all(wd.resources.homework, "homework"),
          papers |-> _get_fallback_papers,
          parallelRunId |-> "scrape-no-parallel-<time>",
          aggregatedAt |-> "<gmtime>" ] ]

-----------------------------------------------------------------------------
(* The course pages the fetch may return *)

td(text) == [tag |-> "td", text |-> text]

th(text) == [tag |-> "th", text |-> text]

\* <a href=...>text</a>
a(href, text) == [href |-> <<href>>, text |-> text]

\* <a name=...>text</a>: an anchor without href
a_no_href(text) == [href |-> <<>>, text |-> text]

TopicText == <<"Semaphore", "s", " ", "and", " ", "Monitor", "s">>

SlidesLink == a(<<"sema", ".pdf">>, <<" ", "Slide", "s", " ">>)

ChapterLink == a(<<"https://x.org", "/", "book">>, <<"CH", ".", " ", "5">>)

NotesLink == a(<<"http", "-notes", ".html">>, <<"notes">>)

HwLink == a(<<"/", "classes", "/", "hw1", ".html">>, <<"HW", " ", "1">>)

HeaderRow(names) ==
    [cells |-> [i \in 1..Len(names) |-> th(<<names[i]>>)], anchors |-> <<>>]

\* a row of another lecture, with a link of its own
OtherRow ==
    [ cells |-> <<td(<<"9", "/", "2", "5">>), td(<<"Scheduling">>)>>,
      anchors |-> <<a(<<"sched", ".pdf">>, <<"Slide", "s">>)>> ]

\* the topic in the second cell, four links and an anchor without href
TopicRow ==
    [ cells |-> <<td(<<"1", "0", "/", "2">>), td(<<" ">> \o TopicText), td(<<"CH", ".", " ", "5">>)>>,
      anchors |-> <<SlidesLink, a_no_href(<<"top">>), ChapterLink, NotesLink, HwLink>> ]

\* a second row with the topic, further down
LaterTopicRow ==
    [ cells |-> <<td(<<"1", "0", "/", "7">>), td(<<"Semaphore", " ", "Monitor">>)>>,
      anchors |-> <<a(<<"sema2", ".ppt">>, <<"more">>)>> ]

\* the topic in the first cell, the second cell empty
TopicFirstCellRow ==
    [ cells |-> <<td(TopicText), td(<<>>)>>,
      anchors |-> <<SlidesLink>> ]

\* the topic spread over two cells
TopicSplitRow ==
    [ cells |-> <<td(<<"Semaphore", "s">>), td(<<"And", " ", "Monitor", "s">>)>>,
      anchors |-> <<HwLink, SlidesLink>> ]

\* the topic in the third cell
TopicThirdCellRow ==
    [ cells |-> <<td(<<"1", "0", "/", "2">>), td(<<"Lecture", " ", "7">>), td(TopicText)>>,
      anchors |-> <<NotesLink>> ]

\* the topic in a row of one cell
OneCellTopicRow ==
    [ cells |-> <<td(TopicText)>>,
      anchors |-> <<ChapterLink>> ]

\* the topic, and no link
TopicNoLinksRow ==
    [ cells |-> <<td(<<"1", "0", "/", "2">>), td(TopicText)>>,
      anchors |-> <<>> ]

StaffRow ==
    [ cells |-> <<td(<<"Alice">>), td(<<"alice@ucsd.edu">>)>>,
      anchors |-> <<a(<<"https://x.org", "/", "alice", "/", "cv", ".pdf">>, <<"cv">>)>> ]

OfficeHoursRow ==
    [ cells |-> <<td(<<"9", "/", "2", "6">>), td(<<"Office", " ", "hours">>)>>,
      anchors |-> <<>> ]

Tables ==
    { \* the staff table: no schedule header, no date
      [rows |-> <<HeaderRow(<<"Name", "Email">>), StaffRow>>],
      \* a table without any row
      [rows |-> <<>>],
      \* the schedule with a "Date" header
      [rows |-> <<HeaderRow(<<"Date", "Lecture", "Readings">>), OtherRow, TopicRow, LaterTopicRow>>],
      \* a "Date" header and no topic row
      [rows |-> <<HeaderRow(<<"Date", "Topic">>), OtherRow>>],
      \* a "Date" header, the second cell of the topic row empty
      [rows |-> <<HeaderRow(<<"Date", "Notes">>), TopicFirstCellRow>>],
      \* a "Lecture" header only
      [rows |-> <<HeaderRow(<<"Lecture", "Topic">>), OneCellTopicRow, TopicSplitRow>>],
      \* a "Readings" header only
      [rows |-> <<HeaderRow(<<"Week", "Readings", "Topic">>), TopicThirdCellRow>>],
      \* no header, a date in the first cell, no topic row
      [rows |-> <<OfficeHoursRow>>],
      \* no header, a date in the first cell, a topic row without links
      [rows |-> <<OtherRow, TopicNoLinksRow>>] }

\* soup.find_all('table') of the pages
Docs == SeqsUpTo(Tables, MaxTables)

Weeks == {3, 12}

-----------------------------------------------------------------------------
(* main *)

\* A slip: a table without topic row yields the empty week data.
extract_week_data_no_fallback(week_number, table) ==
    LET r == find_topic_row(table.rows, 1)
    IN  [ week |-> week_number,
          topic |-> IF r = 0 THEN <<>> ELSE lecture_title(table.rows[r]),
          resources |-> IF r = 0 THEN EmptyResources
                        ELSE categorize_links(row_links(table.rows[r]), EmptyResources) ]

\* lines 94-154: what scrape_week returns once the table is located
extract_week_data(week_number, table) ==
    LET r == find_topic_row(table.rows, 1)
    IN  IF r = 0 THEN _get_fallback_data(week_number)
        ELSE [ week |-> week_number,
               topic |-> lecture_title(table.rows[r]),
               resources |-> categorize_links(row_links(table.rows[r]), EmptyResources) ]

\* lines 117-118: whether the row loop of scrape_week finds a topic row in the
\* table, for every table of the model, evaluated once
found_topic == [t \in Tables |-> find_topic_row(t.rows, 1) # 0]

\* extract_week_data for every week and table of the model, evaluated once
scraped_week_data ==
    [w \in Weeks |-> [t \in Tables |-> extract_week_data(w, t)]]

\* what scrape_week can return in the model
WeekDatas ==
    {_get_fallback_data(w) : w \in Weeks}
        \cup {scraped_week_data[w][t] : w \in Weeks, t \in Tables}

\* _structure_for_output for every week data of the model, evaluated once
structured_output == [wd \in WeekDatas |-> _structure_for_output(wd)]

Init ==
    /\ pc = "start"
    /\ args \in [week : Weeks, no_enrich : BOOLEAN]
    /\ api_key \in BOOLEAN
    /\ page = <<>>
    /\ schedule_table = 0
    /\ week_data = <<>>
    /\ todo = <<>>
    /\ enriched_data = <<>>
    /\ calls = <<>>
    /\ output = <<>>
    /\ file = <<>>
    /\ resources = EmptyResources
    /\ call = <<>>
    /\ steps = <<>>

Request(api, type, outcome) == [api |-> api, type |-> type, outcome |-> outcome]

\* lines 258-271: the POST to the search endpoint names the resource's url
SearchRequest(resource, resource_type, outcome) ==
    [api |-> "POST /search", type |-> resource_type, outcome |-> outcome,
     url |-> resource.url]

\* lines 42-48: the GET succeeds and the page is parsed
FetchOk ==
    /\ pc = "start"
    /\ \E doc \in Docs : page' = <<doc>>
    /\ calls' = Append(calls, Request("GET", "page", "200"))
    /\ pc' = "locate"
    /\ steps' = Append(steps, "fetch")
    /\ UNCHANGED <<args, api_key, schedule_table, week_data, todo, enriched_data,
                   output, file, resources, call>>

\* A slip: the exception of the fetch is not caught.
FetchFailed_raise ==
    /\ pc = "start"
    /\ \E outcome \in {"http_error", "connection_error", "timeout"} :
          calls' = Append(calls, Request("GET", "page", outcome))
    /\ pc' = "raised"
    /\ steps' = Append(steps, "fetch")
    /\ UNCHANGED <<args, api_key, page, schedule_table, week_data, todo, enriched_data,
                   output, file, resources, call>>

\* lines 42-46: the GET fails (an HTTP error status, a transport failure, a timeout)
FetchFailed ==
    /\ pc = "start"
    /\ \E outcome \in {"http_error", "connection_error", "timeout"} :
          calls' = Append(calls, Request("GET", "page", outcome))
    /\ week_data' = <<_get_fallback_data(args.week)>>
    /\ pc' = "scraped"
    /\ steps' = Append(steps, "fetch")
    /\ UNCHANGED <<args, api_key, page, schedule_table, todo, enriched_data,
                   output, file, resources, call>>

\* lines 63-92: the schedule table is looked for
Locate ==
    /\ pc = "locate"
    /\ schedule_table' = find_schedule_table(page[1], 1)
    /\ IF schedule_table' = 0
       THEN /\ week_data' = <<_get_fallback_data(args.week)>>
            /\ pc' = "scraped"
       ELSE /\ week_data' = week_data
            /\ pc' = "extract"
    /\ steps' = Append(steps, "locate")
    /\ UNCHANGED <<args, api_key, page, todo, enriched_data, calls, output, file,
                   resources, call>>

\* lines 94-154: the topic row is looked for and its links are categorized
Extract ==
    /\ pc = "extract"
    /\ week_data' = <<scraped_week_data[args.week][page[1][schedule_table]]>>
    /\ pc' = "scraped"
    /\ steps' = steps \o (IF found_topic[page[1][schedule_table]]
                            THEN <<"extract", "categorize">> ELSE <<"extract">>)
    /\ UNCHANGED <<args, api_key, page, schedule_table, todo, enriched_data, calls,
                   output, file, resources, call>>

\* lines 514-516: --no-enrich
SkipEnrich ==
    /\ pc = "scraped"
    /\ args.no_enrich
    /\ output' = <<structured_output[week_data[1]]>>
    /\ pc' = "write"
    /\ page' = <<>>
    /\ schedule_table' = 0
    /\ steps' = Append(steps, "assemble")
    /\ UNCHANGED <<args, api_key, week_data, todo, enriched_data, calls, file,
                   resources, call>>

\* A slip: without an API key the papers are still asked of the task endpoint.
NoKey_task_call ==
    /\ pc = "scraped"
    /\ ~args.no_enrich
    /\ ~api_key
    /\ calls' = Append(calls, Request("POST /tasks/runs", "papers", "non_200"))
    /\ output' = <<structured_output[week_data[1]]>>
    /\ pc' = "write"
    /\ page' = <<>>
    /\ schedule_table' = 0
    /\ steps' = steps \o <<"task", "assemble">>
    /\ UNCHANGED <<args, api_key, week_data, todo, enriched_data, file,
                   resources, call>>

\* lines 194-196: enrich_with_parallel without API key
NoKey ==
    /\ pc = "scraped"
    /\ ~args.no_enrich
    /\ ~api_key
    /\ output' = <<structured_output[week_data[1]]>>
    /\ pc' = "write"
    /\ page' = <<>>
    /\ schedule_table' = 0
    /\ steps' = Append(steps, "assemble")
    /\ UNCHANGED <<args, api_key, week_data, todo, enriched_data, calls, file,
                   resources, call>>

Typed(rs, resource_type) ==
    [i \in 1..Len(rs) |-> [type |-> resource_type, resource |-> rs[i]]]

\* A slip: the slides loop runs before the textbook loop.
StartEnrich_slides_first ==
    /\ pc = "scraped"
    /\ ~args.no_enrich
    /\ api_key
    /\ enriched_data' = [textbooks |-> <<>>, slides |-> <<>>, homework |-> <<>>, papers |-> <<>>]
    /\ todo' = Typed(week_data[1].resources.slides, "slides")
                 \o Typed(week_data[1].resources.textbook, "textbook")
                 \o Typed(week_data[1].resources.homework, "homework")
    /\ pc' = "enrich"
    /\ page' = <<>>
    /\ schedule_table' = 0
    /\ steps' = steps
    /\ UNCHANGED <<args, api_key, week_data, calls, output, file, resources, call>>

\* lines 198-205: enrich_with_parallel with a key; the three loops lie ahead
StartEnrich ==
    /\ pc = "scraped"
    /\ ~args.no_enrich
    /\ api_key
    /\ enriched_data' = [textbooks |-> <<>>, slides |-> <<>>, homework |-> <<>>, papers |-> <<>>]
    /\ todo' = Typed(week_data[1].resources.textbook, "textbook")
                 \o Typed(week_data[1].resources.slides, "slides")
                 \o Typed(week_data[1].resources.homework, "homework")
    /\ pc' = "enrich"
    /\ page' = <<>>
    /\ schedule_table' = 0
    /\ steps' = steps
    /\ UNCHANGED <<args, api_key, week_data, calls, output, file, resources, call>>

Collection(resource_type) == IF resource_type = "textbook" THEN "textbooks" ELSE resource_type

\* lines 207-229: one turn of a loop: the search call, then the append
EnrichNext ==
    /\ pc = "enrich"
    /\ todo # <<>>
    /\ \E outcome \in SearchOutcomes :
          LET enriched == _enrich_resource(Head(todo).resource, Head(todo).type, outcome)
          IN  /\ enriched_data' =
                    IF enriched # EmptyDict
                    THEN [enriched_data EXCEPT ![Collection(Head(todo).type)] = Append(@, enriched)]
                    ELSE enriched_data
              /\ calls' = Append(calls, SearchRequest(Head(todo).resource,
                                                      Head(todo).type, outcome))
    /\ todo' = Tail(todo)
    /\ steps' = steps \o <<"search", "delay">>
    /\ UNCHANGED <<pc, args, api_key, page, schedule_table, week_data, output, file,
                   resources, call>>

\* lines 231-253: the task call for the papers, then the document is assembled
FindPapers ==
    /\ pc = "enrich"
    /\ todo = <<>>
    /\ \E outcome \in SearchOutcomes, result \in TaskResults :
          /\ calls' = Append(calls, Request("POST /tasks/runs", "papers", outcome))
          /\ enriched_data' =
                [enriched_data EXCEPT !.papers = _find_research_papers(api_key, outcome, result)]
    /\ output' = << [ courseCode |-> "CSE 120",
                      institution |-> "UCSD",
                      weekNumber |-> week_data[1].week,
                      weekTopic |-> week_data[1].topic,
                      aggregatedContent |->
                        [ textbooks |-> enriched_data'.textbooks,
                          slides |-> enriched_data'.slides,
                          homework |-> enriched_data'.homework,
                          papers |-> enriched_data'.papers,
                          parallelRunId |-> "scrape-<time>",
                          aggregatedAt |-> "<gmtime>" ] ] >>
    /\ pc' = "write"
    /\ steps' = steps \o <<"task", "assemble">>
    /\ UNCHANGED <<args, api_key, page, schedule_table, week_data, todo, file,
                   resources, call>>

\* lines 521-522: json.dump(output, f)
Write ==
    /\ pc = "write"
    /\ file' = output
    /\ pc' = "done"
    /\ steps' = Append(steps, "write")
    /\ UNCHANGED <<args, api_key, page, schedule_table, week_data, todo, enriched_data,
                   calls, output, resources, call>>

Next ==
    \/ FetchOk
    \/ FetchFailed
    \/ Locate
    \/ Extract
    \/ SkipEnrich
    \/ NoKey
    \/ StartEnrich
    \/ EnrichNext
    \/ FindPapers
    \/ Write

Spec == Init /\ [][Next]_vars

\* main runs on: a step that can be taken is taken
FairSpec == Spec /\ WF_vars(Next)

-----------------------------------------------------------------------------
(* The claims about the locator, the extractor and the fallback *)

\* scrape_week has returned after a successful fetch: the page is still at hand
Scraped == pc = "scraped" /\ page # <<>>

\* the table has a header cell containing "Date"
HasDateHeader(table) ==
    \E r \in 1..Len(table.rows) : \E c \in 1..Len(table.rows[r].cells) :
        /\ table.rows[r].cells[c].tag = "th"
        /\ Contains(table.rows[r].cells[c].text, <<"Date">>)

\* the tables of the page with a header cell containing "Date"
DateTables == {i \in 1..Len(page[1]) : HasDateHeader(page[1][i])}

\* the first of them
FirstDateTable == CHOOSE i \in DateTables : \A j \in DateTables : i <= j

\* C4: in a document that has a table with a header cell containing "Date",
\* the locator selects that table whatever its position among the other
\* tables, also after a table without matching header whose first cell holds
\* a date.  Stated for the documents in which no table before it has a
\* "Date", "Lecture" or "Readings" header, where the header rule names it.
C4_DateHeaderTableSelected ==
    ( /\ Scraped \/ pc = "extract"
      /\ DateTables # {}
      /\ \A j \in 1..(FirstDateTable - 1) : ~HasScheduleHeader(page[1][j]) )
    => schedule_table = FirstDateTable

\* the rows of the located table that have two cells or more and hold the topic
TopicRows ==
    IF schedule_table = 0 THEN {}
    ELSE {r \in 1..Len(page[1][schedule_table].rows) :
              RowQualifies(page[1][schedule_table].rows[r])}

\* the first of them
FirstTopicRow == page[1][schedule_table].rows[CHOOSE r \in TopicRows : \A q \in TopicRows : r <= q]

\* the hyperlinks of a row: its anchors that have an href
Hyperlinks(row) == SelectSeq(row.anchors, HasHref)

AllRecords(res) == res.textbook \o res.slides \o res.homework \o res.papers

\* how often v occurs in the sequence s
Count(s, v) == Cardinality({i \in 1..Len(s) : s[i] = v})

\* the sequences s and t hold the same elements, each as often
SameBag(s, t) ==
    /\ Len(s) = Len(t)
    /\ \A i \in 1..Len(s) : Count(s, s[i]) = Count(t, s[i])

\* the url a hyperlink is categorized with: the href itself when it begins
\* with "http", else the href resolved against the course base URL
ResolvedUrl(href) ==
    IF href[1] \in HttpPrefixes THEN href
    ELSE IF href[1] = "/" THEN <<"https://cseweb.ucsd.edu">> \o href
    ELSE <<"https://cseweb.ucsd.edu", "/", "classes", "/", "fa25", "/", "cse120-a", "/">> \o href

ExpectedFallbackTopic(week) ==
    CASE week = 3 -> <<"Process", " ", "Scheduling">>
      [] week = 12 -> <<"Week", " ", "1", "2", " ", "Topic">>
      [] week = 4 -> <<"Week", " ", "4", " ", "Topic">>

FromExample(rs) == \A i \in 1..Len(rs) : rs[i].url[1] = "https://example.com"

\* C10: when the fetch fails, no table is located or no row of the located
\* table holds the topic, scrape_week returns the static fallback data of the
\* requested week; in every other case it returns the topic and the links of
\* the page and nothing of the fallback, also when the topic row has no links.
C10_FallbackOrPage ==
    pc = "scraped" =>
        LET wd == week_data[1]
            failed == page = <<>> \/ schedule_table = 0 \/ TopicRows = {}
        IN  /\ wd.week = args.week
            /\ failed =>
                  /\ wd.topic = ExpectedFallbackTopic(args.week)
                  /\ Len(wd.resources.textbook) = 2
                  /\ Len(wd.resources.slides) = 1
                  /\ Len(wd.resources.homework) = 1
                  /\ wd.resources.papers = <<>>
                  /\ FromExample(AllRecords(wd.resources))
            /\ ~failed =>
                  /\ wd.topic = strip(FirstTopicRow.cells[2].text)
                  /\ Len(AllRecords(wd.resources)) = Len(Hyperlinks(FirstTopicRow))
                  /\ \A i \in 1..Len(AllRecords(wd.resources)) :
                        /\ AllRecords(wd.resources)[i].url[1] # "https://example.com"
                        /\ \E k \in 1..Len(Hyperlinks(FirstTopicRow)) :
                              AllRecords(wd.resources)[i].title
                                  = strip(Hyperlinks(FirstTopicRow)[k].text)

\* a topic row without links: the page's topic and four empty buckets
C10_Witness ==
    /\ Scraped
    /\ TopicRows # {}
    /\ Hyperlinks(FirstTopicRow) = <<>>
    /\ week_data[1].resources = EmptyResources
    /\ week_data[1].topic = TopicText
    /\ args.week = 12

-----------------------------------------------------------------------------
(* The claims about the enrichment and the document written *)

\* the document is assembled
Assembled == pc \in {"write", "done"}

\* enrich_with_parallel ran its loops: a key is present and --no-enrich is not set
EnrichedRun == Assembled /\ api_key /\ ~args.no_enrich

IsSearch(c) == c.api = "POST /search"

\* the search calls of the run, in the order they were made
SearchCalls == SelectSeq(calls, IsSearch)

\* the place of the i-th resource of a bucket among the search calls
CallIndex(resource_type, i) ==
    LET res == week_data[1].resources
    IN  CASE resource_type = "textbook" -> i
          [] resource_type = "slides" -> Len(res.textbook) + i
          [] resource_type = "homework" -> Len(res.textbook) + Len(res.slides) + i

\* the outcome of the search call made for the i-th resource of a bucket
OutcomeOf(resource_type, i) == SearchCalls[CallIndex(resource_type, i)].outcome

EnrichedTypes == {"textbook", "slides", "homework"}

\* the title of an output record (a homework record calls it assignment)
TitleOf(resource_type, record) ==
    IF resource_type = "homework" THEN record.assignment ELSE record.title

\* C5: with an API key, enrich_with_parallel produces exactly one record per
\* resource of the textbook, slides and homework buckets, in input order,
\* whatever the outcome of each search call; the record of a resource whose
\* call failed is the heuristic fallback record, with confidence 0.70.
C5_OneRecordPerResource ==
    EnrichedRun =>
        /\ Len(SearchCalls) = Len(week_data[1].resources.textbook)
                                + Len(week_data[1].resources.slides)
                                + Len(week_data[1].resources.homework)
        /\ \A t \in EnrichedTypes :
              LET inputs == week_data[1].resources[t]
                  records == output[1].aggregatedContent[Collection(t)]
              IN  /\ Len(records) = Len(inputs)
                  /\ \A i \in 1..Len(inputs) :
                        /\ records[i].url = inputs[i].url
                        /\ TitleOf(t, records[i]) = inputs[i].title
                        /\ OutcomeOf(t, i) # "200" =>
                              /\ records[i].confidence = 70
                              /\ records[i] = StructuredRecord(inputs[i], t, 70)

\* four resources: the first call raised, the second answered 200, the third
\* timed out, the fourth answered another status
C5_Witness ==
    /\ EnrichedRun
    /\ pc = "done"
    /\ Len(SearchCalls) = 4
    /\ SearchCalls[1].outcome = "exception"
    /\ SearchCalls[2].outcome = "200"
    /\ SearchCalls[3].outcome = "timeout"
    /\ SearchCalls[4].outcome = "non_200"
    /\ Len(file[1].aggregatedContent.textbooks) = 2

DocumentKeys == {"courseCode", "institution", "weekNumber", "weekTopic", "aggregatedContent"}

ContentKeys == {"textbooks", "slides", "homework", "papers", "parallelRunId", "aggregatedAt"}

\* the file holds a document with all keys
Written ==
    /\ pc = "done"
    /\ file # <<>>
    /\ DOMAIN file[1] = DocumentKeys
    /\ DOMAIN file[1].aggregatedContent = ContentKeys

\* C6: every run of main reaches the write step and writes a document with
\* the keys courseCode, institution, weekNumber, weekTopic and
\* aggregatedContent (textbooks, slides, homework, papers, parallelRunId,
\* aggregatedAt), whatever the fetch and the external calls do; no failure
\* leaves scrape_week or enrich_with_parallel as an exception.
C6_AlwaysWrites == <>Written /\ [](pc # "raised")

\* written after a failed fetch and a search call that raised
C6_Witness ==
    /\ Written
    /\ calls[1].outcome = "connection_error"
    /\ \E i \in 1..Len(calls) : calls[i].api = "POST /search" /\ calls[i].outcome = "exception"
    /\ calls[Len(calls)].api = "POST /tasks/runs"
    /\ calls[Len(calls)].outcome = "timeout"

FallbackPaperTitles ==
    << <<"The Linux Completely Fair Scheduler">>,
       <<"Lottery Scheduling: Flexible Proportional-Share Resource Management">>,
       <<"BFS vs CFS - Scheduler Comparison">> >>

\* C7: the papers of every output document are the three static fallback
\* papers (Linux CFS, Lottery Scheduling, BFS vs CFS), in that order, with
\* --no-enrich, without key, and with a key whatever the task call does; the
\* links of the papers bucket are not in the output.
C7_PapersAreFallback ==
    Assembled =>
        LET papers == output[1].aggregatedContent.papers
        IN  /\ [i \in 1..Len(papers) |-> papers[i].title] = FallbackPaperTitles
            /\ papers = _get_fallback_papers
            /\ \A i \in 1..Len(papers) :
                  \A j \in 1..Len(week_data[1].resources.papers) :
                      papers[i].url # week_data[1].resources.papers[j].url

\* the task call answered 200 and the papers bucket holds a link
C7_Witness ==
    /\ pc = "done"
    /\ week_data[1].resources.papers # <<>>
    /\ calls[Len(calls)].api = "POST /tasks/runs"
    /\ calls[Len(calls)].outcome = "200"
    /\ Len(file[1].aggregatedContent.papers) = 3

\* the confidence of a record built after a successful enrichment
EnrichedConfidence(resource_type) == IF resource_type = "slides" THEN 90 ELSE 85

\* every textbook, slides and homework record of the output has the
\* confidence of its resource type when its search call was one of `good`,
\* 70 otherwise, and all its other fields as in the fallback record
ConfidenceBy(good) ==
    \A t \in EnrichedTypes :
        LET inputs == week_data[1].resources[t]
            records == output[1].aggregatedContent[Collection(t)]
        IN  /\ Len(records) = Len(inputs)
            /\ \A i \in 1..Len(records) :
                  /\ records[i].confidence =
                        IF EnrichedRun /\ OutcomeOf(t, i) \in good
                        THEN EnrichedConfidence(t) ELSE 70
                  /\ [records[i] EXCEPT !.confidence = 0]
                        = [StructuredRecord(inputs[i], t, 70) EXCEPT !.confidence = 0]

\* C8 as stated: 0.85 (textbook, homework) or 0.90 (slides) when the search
\* call returned HTTP 200, 0.70 otherwise.
C8_ConfidenceByStatus ==
    Assembled => ConfidenceBy({"200", "200_not_json"})

\* C8 as amended: 0.85 (textbook, homework) or 0.90 (slides) when the search
\* call returned HTTP 200 with a body that parses as JSON; 0.70 when it
\* returned HTTP 200 with another body, returned non-200, raised or timed
\* out, when no API key is present and when --no-enrich is set; all other
\* fields are the same in both cases.
C8_ConfidenceByParsedStatus ==
    Assembled => ConfidenceBy({"200"})

\* a slides record at 0.90, a textbook at 0.85 and one at 0.70 after a 200
\* whose body is not JSON
C8_Witness ==
    /\ EnrichedRun
    /\ pc = "done"
    /\ Len(SearchCalls) = 4
    /\ SearchCalls[1].outcome = "200_not_json"
    /\ file[1].aggregatedContent.textbooks[1].confidence = 70
    /\ SearchCalls[2].outcome = "200"
    /\ file[1].aggregatedContent.textbooks[2].confidence = 85
    /\ SearchCalls[3].outcome = "200"
    /\ file[1].aggregatedContent.slides[1].confidence = 90

-----------------------------------------------------------------------------
(* Runs without enrichment *)

\* --no-enrich is set or no API key is present
NoEnrichment == pc # "off" /\ (args.no_enrich \/ ~api_key)

\* every record of the collection carries the heuristic confidence 0.70
HeuristicOnly(records) == \A i \in 1..Len(records) : records[i].confidence = 70

\* C11: when --no-enrich is set or no API key is present, no request is ever
\* sent to the enrichment API (neither to the search endpoint nor to the
\* task endpoint); the only request of the run is the single GET of the
\* course page, and the output is the heuristic-only structuring of the
\* week data.
C11_NoApiRequests ==
    NoEnrichment =>
        /\ \A i \in 1..Len(calls) : calls[i].api = "GET" /\ calls[i].type = "page"
        /\ Len(calls) = (IF pc = "start" THEN 0 ELSE 1)
        /\ todo = <<>>
        /\ Assembled =>
              /\ output = <<_structure_for_output(week_data[1])>>
              /\ HeuristicOnly(output[1].aggregatedContent.textbooks)
              /\ HeuristicOnly(output[1].aggregatedContent.slides)
              /\ HeuristicOnly(output[1].aggregatedContent.homework)
              /\ output[1].aggregatedContent.papers = _get_fallback_papers
              /\ pc = "done" => file = output

\* a finished run without API key that scraped a textbook and a slides link
\* off the page and made the GET only
C11_Witness ==
    /\ pc = "done"
    /\ ~api_key
    /\ ~args.no_enrich
    /\ calls = <<Request("GET", "page", "200")>>
    /\ file[1].aggregatedContent.textbooks # <<>>
    /\ file[1].aggregatedContent.slides # <<>>
    /\ file[1].aggregatedContent.slides[1].confidence = 70

-----------------------------------------------------------------------------
(* The order of the steps *)

\* the place of a step in the order fetch, locate, extract, categorize,
\* enrich (search calls with their delays, then the task call), assemble, write
StepRank(step) ==
    CASE step = "fetch"      -> 1
      [] step = "locate"     -> 2
      [] step = "extract"    -> 3
      [] step = "categorize" -> 4
      [] step = "search"     -> 5
      [] step = "delay"      -> 5
      [] step = "task"       -> 6
      [] step = "assemble"   -> 7
      [] step = "write"      -> 8

LoopSteps == {"search", "delay"}

\* the steps were taken in order, each but the loop's at most once
StepsInOrder ==
    \A i, j \in 1..Len(steps) :
        i < j =>
            \/ StepRank(steps[i]) < StepRank(steps[j])
            \/ steps[i] \in LoopSteps /\ steps[j] \in LoopSteps

\* every search call is followed by the delay, and only then the next starts
SearchThenDelay ==
    \A i \in 1..Len(steps) :
        /\ steps[i] = "search" => i < Len(steps) /\ steps[i + 1] = "delay"
        /\ steps[i] = "delay" => i > 1 /\ steps[i - 1] = "search"

\* the resources in the order of the three loops
ResourcesInLoopOrder ==
    Typed(week_data[1].resources.textbook, "textbook")
        \o Typed(week_data[1].resources.slides, "slides")
        \o Typed(week_data[1].resources.homework, "homework")

IsTask(c) == c.api = "POST /tasks/runs"

IsSearchStep(step) == step = "search"

\* the search calls made so far are the calls for a prefix of the resources
\* in loop order, one call each
SearchCallsInListOrder ==
    /\ Len(SelectSeq(steps, IsSearchStep)) = Len(SearchCalls)
    /\ SearchCalls # <<>> =>
          /\ week_data # <<>>
          /\ api_key /\ ~args.no_enrich
          /\ Len(SearchCalls) <= Len(ResourcesInLoopOrder)
          /\ \A k \in 1..Len(SearchCalls) :
                /\ SearchCalls[k].type = ResourcesInLoopOrder[k].type
                /\ SearchCalls[k].url = ResourcesInLoopOrder[k].resource.url

\* the task call is made once, after the search call of the last resource,
\* and the document is assembled only after it
TaskCallLast ==
    /\ Len(SelectSeq(calls, IsTask)) <= 1
    /\ \A i \in 1..Len(calls) :
          IsTask(calls[i]) =>
              /\ i = Len(calls)
              /\ api_key /\ ~args.no_enrich
              /\ Len(SearchCalls) = Len(ResourcesInLoopOrder)
              /\ Assembled
    /\ EnrichedRun => calls # <<>> /\ IsTask(calls[Len(calls)])

\* C12: in every run the steps happen strictly in the order fetch, locate,
\* extract, categorize, enrich, assemble, write, each at most once; with an
\* API key and enrichment enabled the search calls are issued one at a time,
\* one per resource, for the textbook resources in list order, then the
\* slides resources, then the homework resources, each followed by the
\* delay before the next starts, and the single task call for the papers is
\* issued after the last of them and before the document is assembled and
\* written.
C12_StepsInOrder ==
    pc # "off" =>
        /\ StepsInOrder
        /\ steps # <<>> => steps[1] = "fetch"
        /\ SearchThenDelay
        /\ SearchCallsInListOrder
        /\ TaskCallLast
        /\ Assembled => "assemble" \in {steps[i] : i \in 1..Len(steps)}
        /\ pc = "done" <=> (steps # <<>> /\ steps[Len(steps)] = "write")

\* a finished enriched run that took every step and searched for a textbook,
\* for slides and for a homework
C12_Witness ==
    /\ pc = "done"
    /\ EnrichedRun
    /\ {steps[i] : i \in 1..Len(steps)} =
          {"fetch", "locate", "extract", "categorize", "search", "delay", "task",
           "assemble", "write"}
    /\ \A t \in EnrichedTypes : \E k \in 1..Len(SearchCalls) : SearchCalls[k].type = t
    /\ Len(SearchCalls) = 3
    /\ calls[Len(calls)].api = "POST /tasks/runs"

-----------------------------------------------------------------------------
(* _extract_problem_numbers, called on its own *)

TitleAlphabet == {"1", "5", "-", ".", " ", "Problems"}

\* longer homework titles: two decimals, a range of two-digit numbers, a
\* decimal after a range, a date
ExtraTitles ==
    { <<"Problems", " ", "3", ".", "1", ",", " ", "3", ".", "2">>,
      <<"Problems", " ", "9", "-", "1", "2">>,
      <<"Problems", " ", "1", "2", "-", "9">>,
      <<"HW", " ", "1", "-", "3", " ", "and", " ", "4", ".", "2">>,
      <<"Due", " ", "2", "0", "2", "5", "-", "1", "0", "-", "0", "5">> }

Titles == SeqsUpTo(TitleAlphabet, MaxTitleLen) \cup ExtraTitles

InitProblems ==
    /\ MainOff
    /\ resources = EmptyResources
    /\ call = <<>>

\* one call _extract_problem_numbers(title)
ExtractProblemsCall ==
    /\ pc = "off"
    /\ call = <<>>
    /\ \E title \in Titles :
          call' = <<[title |-> title, problems |-> _extract_problem_numbers(title)]>>
    /\ UNCHANGED <<mainVars, resources>>

NextProblems == ExtractProblemsCall

SpecProblems == InitProblems /\ [][NextProblems]_vars

\* the title has a numeric range start-end
HasRange(title) == \E i \in 1..Len(title) : RangeAt(title, i)

\* where the first range of the title starts
FirstRange(title) ==
    CHOOSE i \in 1..Len(title) : RangeAt(title, i) /\ \A j \in 1..(i - 1) : ~RangeAt(title, j)

RangeStart(title) ==
    LET i == FirstRange(title)
    IN  int(SubSeq(title, i, SkipDigits(title, i) - 1))

RangeEnd(title) ==
    LET e == SkipDigits(title, FirstRange(title))
    IN  int(SubSeq(title, e + 1, SkipDigits(title, e + 1) - 1))

DefaultProblems == <<<<"1">>, <<"2">>, <<"3">>>>

\* the numbers from start to end, as strings
NumbersFromTo(start, end) == [k \in 1..(end + 1 - start) |-> str(start + k - 1)]

\* C13: for every homework title _extract_problem_numbers returns a
\* non-empty list: the decimal tokens <digits>.<digits> in title order when
\* there is one; otherwise the numbers from start to end when the title has
\* a numeric range start-end; and the default ["1","2","3"] whenever neither
\* pattern yields a problem number, a range whose start is greater than its
\* end included.
C13_ProblemsNonEmpty ==
    call # <<>> =>
        LET title == call[1].title
            problems == call[1].problems
            decimals == findall_decimals(title, 1)
        IN  /\ problems # <<>>
            /\ problems =
                  IF decimals # <<>> THEN decimals
                  ELSE IF HasRange(title) /\ RangeStart(title) <= RangeEnd(title)
                  THEN NumbersFromTo(RangeStart(title), RangeEnd(title))
                  ELSE DefaultProblems

\* the same but for the range whose start is greater than its end, where the
\* list is empty: every other title gets the list C13 names
C13_ProblemsButDescendingRange ==
    call # <<>> =>
        LET title == call[1].title
            problems == call[1].problems
            decimals == findall_decimals(title, 1)
        IN  problems =
                IF decimals # <<>> THEN decimals
                ELSE IF HasRange(title) /\ RangeStart(title) <= RangeEnd(title)
                THEN NumbersFromTo(RangeStart(title), RangeEnd(title))
                ELSE IF HasRange(title) THEN <<>>
                ELSE DefaultProblems

====
